---- MODULE Spec2Model ----
(***************************************************************************)
(* Model of app.py, the Alexa -> Kodi voice middleware.                    *)
(*                                                                         *)
(*   SpecTrakt : get_trakt_next_episode with the credential store          *)
(*               (load / bootstrap / refresh / save), one step per I/O.    *)
(*   SpecWake  : worker_process / change_source_worker with                *)
(*               wake_and_start_kodi, one step per command or probe.       *)
(*   SpecDialogue : alexa_handler, one step per request, over the sessions *)
(*               of the voice platform.                                    *)
(*   SpecReplay : alexa_handler handling one request twice, other requests *)
(*               in between.                                               *)
(*   SpecRace  : two get_trakt_next_episode calls of two request threads   *)
(*               interleaving over the same token file.                    *)
(*   SpecDispatch : alexa_handler up to its return, the worker thread it   *)
(*               started, and the device, interleaving.                    *)
(*   SpecWorkers : the worker threads of two requests and the device,      *)
(*               interleaving.                                             *)
(*   SpecWakeFair : SpecWake with a worker thread that keeps being         *)
(*               scheduled (weak fairness of its next step).               *)
(*                                                                         *)
(* Python values: None is the integer None; a missing dictionary key is    *)
(* Missing.  Identifiers, tokens, seasons and episodes are positive        *)
(* integers.  An HTTP exchange that raises (timeout, refused connection)   *)
(* is an answer with status Raised.                                        *)
(***************************************************************************)
EXTENDS Integers, Sequences, FiniteSets, TLC

VARIABLES
    cfg,        \* module-level configuration read from the environment
    tokenFile,  \* content of TOKEN_FILE
    dataDir,    \* whether DATA_DIR exists
    minted,     \* number of token pairs the authorization endpoint has issued
    lk,         \* the running get_trakt_next_episode call (locals and position)
    lk2,        \* the same call running in a second request thread
    kodi,       \* whether the device's control endpoint is listening
    wk,         \* the running background worker (locals and position)
    sent,       \* what the worker has sent to the network and the device
    wk2,        \* a second background worker, started by a later request
    arrived,    \* the player commands that reached the device, in order
    session,    \* the conversation context the voice platform echoes next
    turn,       \* the request alexa_handler handled last, and its reply
    probe       \* a handled request kept aside to be replayed

storeVars == <<tokenFile, dataDir, minted>>
deviceVars == <<kodi, wk, sent, wk2, arrived>>
dialogVars == <<session, turn, probe>>
vars ==
    <<cfg, tokenFile, dataDir, minted, lk, lk2, kodi, wk, sent, wk2, arrived, session,
      turn, probe>>

\* ------------------------------------------------------------------ values

None == -1
Missing == -2
Raised == 0

\* Python truthiness of the values used here (None, a missing key, 0 are falsy).
Truthy(x) == x # None /\ x # Missing /\ x # 0

\* Number of token pairs the authorization endpoint may issue in one run.
MaxMint == 2

\* ------------------------------------------------------- credential store

FileAbsent == [kind |-> "absent", access |-> None, refresh |-> None]
\* An empty or syntactically broken file: json.load raises.
FileBroken == [kind |-> "broken", access |-> None, refresh |-> None]
FileRecord(a, r) == [kind |-> "json", access |-> a, refresh |-> r]

\* The pair the authorization endpoint issues as its (n+1)-th answer.
NewAccess(n) == n + 3
NewRefresh(n) == n + 3

\* load_trakt_token, lines 87-94: the access token of a complete record, else None.
StoredAccess(file) ==
    IF file.kind = "json" /\ Truthy(file.access) /\ Truthy(file.refresh)
    THEN file.access
    ELSE None

\* load_trakt_token, line 96: the bootstrap values are usable.
HasBootstrap(c) == Truthy(c.env_access) /\ Truthy(c.env_refresh)

\* get_refresh_token_from_storage: the stored refresh token (None when the key
\* is absent), the configured one when the file is absent or unreadable.
get_refresh_token_from_storage(file, c) ==
    IF file.kind = "json" THEN file.refresh ELSE c.env_refresh

\* ------------------------------------------------------------ the lookup

Idle ==
    [pc |-> "idle", tok |-> None, hdr |-> None, url |-> 0, newt |-> None,
     newr |-> None, res |-> <<None, None>>, log |-> <<>>,
     ora |-> [get |-> <<>>, post |-> <<>>, fs |-> <<>>],
     boots |-> 0, wrote |-> FALSE]

Event(kind, url, tok, st) == [ev |-> kind, url |-> url, tok |-> tok, st |-> st]

\* ora keeps, service by service and in call order, what the outside answered
\* during the lookup: the progress service (get), the authorization endpoint
\* (post) and the file system under save_trakt_token_data (fs).
Got(l, ans) == [l EXCEPT !.ora.get = Append(@, ans)]
Posted(l, ans) == [l EXCEPT !.ora.post = Append(@, ans)]
Fs(l, outcome) == [l EXCEPT !.ora.fs = Append(@, outcome)]

\* Answers of the progress service to one GET.  body: "item" is a usable
\* answer (a first search result / a next_episode object with s, e), "none" an
\* empty one, "bad" one that r.json() or the subscripts reject.
NextEpisodes == {<<3, 5>>}
GetAnswers(url) ==
    {[st |-> st, body |-> "none", s |-> None, e |-> None] : st \in {Raised, 401, 500}}
    \cup {[st |-> 200, body |-> b, s |-> None, e |-> None] : b \in {"none", "bad"}}
    \cup IF url = 1
         THEN {[st |-> 200, body |-> "item", s |-> None, e |-> None]}
         ELSE {[st |-> 200, body |-> "item", s |-> n[1], e |-> n[2]] : n \in NextEpisodes}

\* Answers of the authorization endpoint: status and whether the JSON body
\* holds both tokens.
RefreshAnswers ==
    {[st |-> st, wellformed |-> FALSE] : st \in {Raised, 400}}
    \cup {[st |-> 200, wellformed |-> w] : w \in BOOLEAN}

Finished(l, s, e) == [l EXCEPT !.pc = "done", !.res = <<s, e>>]

\* get_trakt_next_episode, lines 364-372: what the caller does with the
\* response make_request returned for the current url.
AfterResponse(l, ans) ==
    IF ans.st # 200 THEN Finished(l, None, None)
    ELSE IF ans.body = "bad" THEN Finished(l, None, None)
    ELSE IF l.url = 1
         THEN IF ans.body = "none" THEN Finished(l, None, None)
              ELSE [l EXCEPT !.pc = "get", !.url = 2]
    ELSE IF ans.body = "item" THEN Finished(l, ans.s, ans.e)
    ELSE Finished(l, None, None)

\* The 401 that make_request hands back when the refresh gave no token.
Unauthorized == [st |-> 401, body |-> "none", s |-> None, e |-> None]

\* make_request, line 358: the Authorization header after a refresh.
HeaderAfterRefreshStale(hdr, new_t) == hdr
HeaderAfterRefresh(hdr, new_t) == new_t

\* make_request, lines 359-360: the retry's response is returned as it is.
AfterRetryLoops(l, ans) ==
    IF ans.st = 401 THEN [l EXCEPT !.pc = "rt_read"] ELSE AfterResponse(l, ans)
AfterRetry(l, ans) == AfterResponse(l, ans)

\* get_trakt_next_episode, line 350, once load_trakt_token returned tok.
AfterLoad(l, c, tok) ==
    IF ~c.client_id \/ ~Truthy(tok)
    THEN Finished([l EXCEPT !.tok = tok], None, None)
    ELSE [l EXCEPT !.pc = "get", !.url = 1, !.tok = tok, !.hdr = tok]

Store(file, dir, n) == [file |-> file, dir |-> dir, minted |-> n]

\* Each step operator gives the set of <<locals', store'>> the step can end in.

\* load_trakt_token, lines 87-102, up to the call of save_trakt_token_data.
LoadStep(l, st, c) ==
    IF Truthy(StoredAccess(st.file))
    THEN {<<AfterLoad(l, c, StoredAccess(st.file)), st>>}
    ELSE IF HasBootstrap(c)
         THEN {<<[l EXCEPT !.pc = "boot_open"], st>>}
         ELSE {<<AfterLoad(l, c, None), st>>}

\* save_trakt_token_data, lines 113-117 up to open(): makedirs may raise (it is
\* outside the try), open() may raise (caught, logged) or truncates the file.
\* onRaise / onSkip / onOpen: the locals after each outcome.
SaveOpenStep(st, onRaise, onSkip, onOpen) ==
    (IF st.dir THEN {} ELSE {<<onRaise, st>>})
    \cup {<<onSkip, [st EXCEPT !.dir = TRUE]>>}
    \cup {<<onOpen, [st EXCEPT !.dir = TRUE, !.file = FileBroken]>>}

\* save_trakt_token_data, line 117: json.dump and close.
SaveDumpStep(st, a, r, after) == {<<after, [st EXCEPT !.file = FileRecord(a, r)]>>}

\* Number of bootstrap loads that are counted.
MaxBoots == 2

\* History of the deployment, kept from one call to the next: boots counts the
\* loads that returned the bootstrap token (lines 96-99), wrote tells whether
\* one of their saves wrote the file.
UsedBootstrap(l, written) ==
    [l EXCEPT !.boots = IF @ < MaxBoots THEN @ + 1 ELSE @, !.wrote = @ \/ written]
Carry(l) == [Idle EXCEPT !.boots = l.boots, !.wrote = l.wrote]

\* load_trakt_token, line 98: the bootstrap save; an exception of makedirs
\* leaves get_trakt_next_episode unhandled (line 349 is outside its try).
BootOpenStep(l, st, c) ==
    SaveOpenStep(st,
        [Fs(l, "makedirs_raised") EXCEPT !.pc = "raised"],
        AfterLoad(UsedBootstrap(Fs(l, "open_raised"), FALSE), c, c.env_access),
        [Fs(l, "written") EXCEPT !.pc = "boot_dump"])

\* The bootstrap save leaving a record without its refresh token.
BootDumpStepPartial(l, st, c) ==
    SaveDumpStep(st, c.env_access, None,
                 AfterLoad(UsedBootstrap(l, TRUE), c, c.env_access))

BootDumpStep(l, st, c) ==
    SaveDumpStep(st, c.env_access, c.env_refresh,
                 AfterLoad(UsedBootstrap(l, TRUE), c, c.env_access))

\* make_request, line 354: the first GET for the current url.
GetStep(l, st, c) ==
    { <<(IF ans.st = Raised
         THEN Finished([Got(l, ans) EXCEPT
                            !.log = Append(@, Event("get", l.url, l.hdr, ans.st))],
                       None, None)
         ELSE IF ans.st = 401
         THEN [Got(l, ans) EXCEPT !.pc = "rt_read",
                        !.log = Append(@, Event("get", l.url, l.hdr, ans.st))]
         ELSE AfterResponse(
                  [Got(l, ans) EXCEPT
                       !.log = Append(@, Event("get", l.url, l.hdr, ans.st))], ans)),
        st>> : ans \in GetAnswers(l.url) }

\* refresh_trakt_token_online returned None: make_request returns the 401.
RefreshFailed(l, st) ==
    AfterResponse([l EXCEPT !.log = Append(@, Event("refresh_ret", l.url, None, st))],
                  Unauthorized)

\* refresh_trakt_token_online returned new_t: lines 357-358.
RefreshDone(l) ==
    [l EXCEPT !.pc = "retry",
              !.hdr = HeaderAfterRefresh(l.hdr, l.newt),
              !.log = Append(@, Event("refresh_ret", l.url, l.newt, 200))]

\* refresh_trakt_token_online going on to the exchange whatever it holds.
RefreshReadStepUnchecked(l, st, c) ==
    {<<[l EXCEPT !.pc = "rt_post",
                 !.log = Append(@, Event("refresh", l.url, None, 0))], st>>}

\* refresh_trakt_token_online, lines 123-127.
RefreshReadStep(l, st, c) ==
    LET rt == get_refresh_token_from_storage(st.file, c)
        called == [l EXCEPT !.log = Append(@, Event("refresh", l.url, rt, 0))]
    IN  IF ~Truthy(rt) \/ ~c.client_secret
        THEN {<<RefreshFailed(called, 0), st>>}
        ELSE {<<[called EXCEPT !.pc = "rt_post"], st>>}

\* refresh_trakt_token_online, lines 139-147 up to save_trakt_token_data.
RefreshPostStep(l, st, c) ==
    { <<(IF ans.st = 200 /\ ans.wellformed
         THEN [Posted(l, ans) EXCEPT !.pc = "rt_open", !.newt = NewAccess(st.minted),
                        !.newr = NewRefresh(st.minted),
                        !.log = Append(@, Event("post", l.url, NewAccess(st.minted), 200))]
         ELSE RefreshFailed(
                  [Posted(l, ans) EXCEPT
                       !.log = Append(@, Event("post", l.url, None, ans.st))],
                  ans.st)),
        (IF ans.st = 200 THEN [st EXCEPT !.minted = @ + 1] ELSE st)>>
      : ans \in {a \in RefreshAnswers : a.st = 200 => st.minted < MaxMint} }

\* refresh_trakt_token_online, line 142: the save; an exception of makedirs is
\* caught at line 146 and the refresh returns None.
RefreshOpenStep(l, st, c) ==
    SaveOpenStep(st,
        RefreshFailed(Fs(l, "makedirs_raised"), 200),
        RefreshDone([Fs(l, "open_raised") EXCEPT
                         !.log = Append(@, Event("save", l.url, l.newt, 0))]),
        [Fs(l, "written") EXCEPT !.pc = "rt_dump"])

RefreshDumpStep(l, st, c) ==
    SaveDumpStep(st, l.newt, l.newr,
        RefreshDone([l EXCEPT !.log = Append(@, Event("save", l.url, l.newt, 1))]))

\* make_request, line 359: the retry.
RetryStep(l, st, c) ==
    { <<(IF ans.st = Raised
         THEN Finished([Got(l, ans) EXCEPT
                            !.log = Append(@, Event("get", l.url, l.hdr, ans.st))],
                       None, None)
         ELSE AfterRetry(
                  [Got(l, ans) EXCEPT
                       !.log = Append(@, Event("get", l.url, l.hdr, ans.st))], ans)),
        st>> : ans \in GetAnswers(l.url) }

\* ------------------------------------------------------------ locators

\* A deep link is kept as its query fields: a field that the string does not
\* contain is Missing, a field formatted from None reads None.
Locator(player, id, type, season, episode) ==
    [player |-> player, tmdb_id |-> id, type |-> type, season |-> season,
     episode |-> episode]
NoUrl == Locator("", None, "none", Missing, Missing)

\* get_playback_url with the season and episode arguments taken in the wrong order.
PlaybackUrlSwapped(tmdb_id, media_type, season, episode, force_select) ==
    LET target_player == IF force_select THEN "PLAYER_SELECT" ELSE "PLAYER_DEFAULT"
    IN  IF media_type = "movie"
        THEN Locator(target_player, tmdb_id, "movie", Missing, Missing)
        ELSE IF media_type = "episode"
        THEN Locator(target_player, tmdb_id, "episode", episode, season)
        ELSE NoUrl

\* get_playback_url, lines 419-427.
get_playback_url(tmdb_id, media_type, season, episode, force_select) ==
    LET target_player == IF force_select THEN "PLAYER_SELECT" ELSE "PLAYER_DEFAULT"
    IN  IF media_type = "movie"
        THEN Locator(target_player, tmdb_id, "movie", Missing, Missing)
        ELSE IF media_type = "episode"
        THEN Locator(target_player, tmdb_id, "episode", season, episode)
        ELSE NoUrl

\* ------------------------------------------------- device power, workers

\* Lines 76-79.
KODI_BASE_URL(c) == c.shield_ip /\ c.kodi_port

\* What the control endpoint answers to the GET of is_kodi_responsive.
ProbeAnswers(k) == IF k = "up" THEN {200, 401, 405} ELSE {Raised, 503}

\* is_kodi_responsive, line 248: the statuses that count as alive.
AliveStatusOnly200(st) == st = 200
AliveStatus(st) == st \in {200, 401, 405}

\* is_kodi_responsive, lines 244-250, when the GET is answered with status st.
ProbeResult(c, st) == KODI_BASE_URL(c) /\ AliveStatus(st)

\* is_kodi_responsive, lines 244-250: the possible results in device state k.
is_kodi_responsive(c, k) ==
    IF ~KODI_BASE_URL(c) THEN {FALSE} ELSE {AliveStatus(st) : st \in ProbeAnswers(k)}

\* for i in range(45), line 267.
PollBudget == 45

IdleWorker ==
    [pc |-> "idle", task |-> "none", url |-> NoUrl, player |-> None, i |-> 0,
     ret |-> FALSE, upAtCall |-> FALSE, probes |-> 0, alive |-> 0,
     settled |-> FALSE]

Cmd(name, url, player) == [cmd |-> name, url |-> url, player |-> player]

\* One call of is_kodi_responsive inside wake_and_start_kodi, counted.
Probed(w, c, a) ==
    [w EXCEPT !.probes = IF KODI_BASE_URL(c) THEN @ + 1 ELSE @,
              !.alive = IF a THEN @ + 1 ELSE @]

WakeReturn(w, r) == [w EXCEPT !.pc = "after_wake", !.ret = r]

\* Each worker step gives the set of [w |-> locals', out |-> commands sent].
Stepped(w, out) == [w |-> w, out |-> out]

\* wake_and_start_kodi, lines 253-254.
WakeCallStep(w, c, k) ==
    LET called == [w EXCEPT !.upAtCall = KODI_BASE_URL(c) /\ k = "up",
                            !.probes = 0, !.alive = 0, !.i = 0]
    IN  IF ~c.shield_ip \/ ~c.shield_mac
        THEN {Stepped(WakeReturn(called, FALSE), <<>>)}
        ELSE {Stepped(IF a THEN WakeReturn(Probed(called, c, a), TRUE)
                      ELSE [Probed(called, c, a) EXCEPT !.pc = "wol"], <<>>)
              : a \in is_kodi_responsive(c, k)}

\* Lines 256-257: the magic packet; an exception is swallowed.
WolStep(w, c, k) == {Stepped([w EXCEPT !.pc = "adb_connect"], <<Cmd("WOL", NoUrl, None)>>)}

\* Lines 258-263: adb connect, WAKEUP, sleep, WAKEUP in one try; a command that
\* raises (timeout, no adb binary) skips the rest of the block.
AdbConnectStep(w, c, k) ==
    {Stepped([w EXCEPT !.pc = nxt], <<Cmd("ADB_CONNECT", NoUrl, None)>>)
     : nxt \in {"key1", "probe2"}}
Key1Step(w, c, k) ==
    {Stepped([w EXCEPT !.pc = nxt], <<Cmd("WAKEUP", NoUrl, None)>>)
     : nxt \in {"key2", "probe2"}}
Key2Step(w, c, k) ==
    {Stepped([w EXCEPT !.pc = "probe2"], <<Cmd("WAKEUP", NoUrl, None)>>)}

\* Line 264.
Probe2Step(w, c, k) ==
    {Stepped(IF a THEN WakeReturn(Probed(w, c, a), TRUE)
             ELSE [Probed(w, c, a) EXCEPT !.pc = "am_start"], <<>>)
     : a \in is_kodi_responsive(c, k)}

\* Lines 265-266.
AmStartStep(w, c, k) == {Stepped([w EXCEPT !.pc = "poll"], <<Cmd("AM_START", NoUrl, None)>>)}

\* Lines 267-272: what follows a probe of the polling loop that found nothing.
AfterDeadPollRelaunches(w) ==
    IF w.i + 1 < PollBudget THEN [w EXCEPT !.pc = "am_start", !.i = @ + 1]
    ELSE WakeReturn([w EXCEPT !.i = @ + 1], FALSE)
AfterDeadPoll(w) ==
    IF w.i + 1 < PollBudget THEN [w EXCEPT !.i = @ + 1]
    ELSE WakeReturn([w EXCEPT !.i = @ + 1], FALSE)

\* Lines 267-272: one iteration of the polling loop.
PollStepUnbounded(w, c, k) ==
    {Stepped(IF a THEN WakeReturn(Probed(w, c, a), TRUE) ELSE Probed(w, c, a), <<>>)
     : a \in is_kodi_responsive(c, k)}
PollStep(w, c, k) ==
    {Stepped(IF a THEN WakeReturn(Probed(w, c, a), TRUE)
             ELSE AfterDeadPoll(Probed(w, c, a)), <<>>)
     : a \in is_kodi_responsive(c, k)}

\* worker_process, line 431: go on to Player.Open after this result of the wake.
ProceedsAlways(ret) == TRUE
Proceeds(ret) == ret

\* worker_process, lines 431-440; the answer to Player.Open is never read.
OpenStep(w, c, k) ==
    IF ~Proceeds(w.ret)
    THEN {Stepped([w EXCEPT !.pc = "end"], <<>>)}
    ELSE {Stepped([w EXCEPT !.pc = "end"], <<Cmd("Player.Open", w.url, None)>>)}

\* change_source_worker going from the stop straight to worker_process.
StopStepNoSettle(w, c, k) ==
    {Stepped([w EXCEPT !.pc = "wake"], <<Cmd("Player.Stop", NoUrl, w.player)>>)}

\* change_source_worker, line 444: stop_kodi_playback posts Player.Stop for the
\* player it was given; the answer is not read and an exception is swallowed.
StopStep(w, c, k) ==
    {Stepped([w EXCEPT !.pc = "settle"], <<Cmd("Player.Stop", NoUrl, w.player)>>)}

\* change_source_worker, line 445: time.sleep(2), then worker_process is called.
SettleStep(w, c, k) == {Stepped([w EXCEPT !.pc = "wake", !.settled = TRUE], <<>>)}

\* ------------------------------------------------- catalogue and device reads

\* Answers of the catalogue and of the device's JSON-RPC endpoint are records
\*   [kind |-> "raised" | "none" | "item", ...]: the request raised, the
\* answer holds nothing usable, the answer holds the item described.
MovieAns(kind, id, title, year) == [kind |-> kind, id |-> id, title |-> title, year |-> year]
ShowAns(kind, id, title) == [kind |-> kind, id |-> id, title |-> title]
EpisodeAns(kind, s, e) == [kind |-> kind, s |-> s, e |-> e]
ItemAns(kind, type, title, year, showtitle, season, episode) ==
    [kind |-> kind, type |-> type, title |-> title, year |-> year,
     showtitle |-> showtitle, season |-> season, episode |-> episode]

\* search_tmdb_movie, lines 376-388: id, title and the release year (0: none).
search_tmdb_movie(c, ans) ==
    IF c.tmdb_key /\ ans.kind = "item"
    THEN [id |-> ans.id, title |-> ans.title, year |-> ans.year]
    ELSE [id |-> None, title |-> None, year |-> None]

\* search_tmdb_show, lines 390-401.
search_tmdb_show(c, ans) ==
    IF c.tmdb_key /\ ans.kind = "item"
    THEN [id |-> ans.id, title |-> ans.title]
    ELSE [id |-> None, title |-> None]

\* The except branch rejecting the episode.
ExistsOnFaultStrict == FALSE

\* check_episode_exists, line 408: what the except branch returns.
ExistsOnFault == TRUE

\* check_episode_exists, lines 403-408; st is the status of the answer.
check_episode_exists(c, st) ==
    IF ~c.tmdb_key THEN FALSE
    ELSE IF st = Raised THEN ExistsOnFault
    ELSE st = 200

\* get_tmdb_last_aired, lines 410-417.
get_tmdb_last_aired(c, ans) ==
    IF c.tmdb_key /\ ans.kind = "item" THEN <<ans.s, ans.e>> ELSE <<None, None>>

\* get_kodi_active_player, lines 307-318; players: the playerid of the first
\* video player of the answer, None when there is none or the call raised.
get_kodi_active_playerOrDefault(c, players) == IF players = None THEN 1 ELSE players
get_kodi_active_player(c, players) == IF KODI_BASE_URL(c) THEN players ELSE None

\* get_kodi_player_item, lines 320-336: the item, or none.
get_kodi_player_item(c, ans) ==
    IF KODI_BASE_URL(c) /\ ans.kind = "item" THEN ans
    ELSE ItemAns("none", "none", None, None, None, None, None)

\* ------------------------------------------------------------- the handler

\* The conversation context (session attributes).  A key that the dictionary
\* does not hold is Missing ("missing" for step); null is None.
Ctx(id, name, step, force, ns, ne, ls, le) ==
    [pending_show_id |-> id, pending_show_name |-> name, step |-> step,
     force_select |-> force, trakt_next_s |-> ns, trakt_next_e |-> ne,
     tmdb_last_s |-> ls, tmdb_last_e |-> le]
EmptyCtx == Ctx(Missing, Missing, "missing", Missing, Missing, Missing, Missing, Missing)

\* dict.get(key): None for an absent key.
Get(v) == IF v = Missing THEN None ELSE v

Slots(show, season, episode, movie, year, mode) ==
    [ShowName |-> show, Season |-> season, Episode |-> episode,
     MovieName |-> movie, MovieYear |-> year, SourceMode |-> mode]

\* get_text(key, lang, *args): the template of key in lang with its arguments.
Text(key, lang, a1, a2, a3, a4) == [key |-> key, lang |-> lang, args |-> <<a1, a2, a3, a4>>]
NoText == Text("", "", None, None, None, None)

\* Line 461.
LangOf(locale) == IF locale = "en-US" THEN "en" ELSE "fr"

Thread(target, url, player) == [target |-> target, url |-> url, player |-> player]

\* build_response, lines 609-610, with what the branch started and asked.
\* asked: the services the handler called while producing the reply.
Response(text, end_session, attributes, threads, asked) ==
    [code |-> 200, text |-> text, end |-> end_session, attrs |-> attributes,
     threads |-> threads, asked |-> asked]
\* build_response(text): end_session=True, attributes={}.
Say(text, threads, asked) == Response(text, TRUE, EmptyCtx, threads, asked)
\* build_response(text, end_session=False).
Ask(text, asked) == Response(text, FALSE, EmptyCtx, <<>>, asked)
\* Line 455.
InvalidRequest ==
    [code |-> 400, text |-> NoText, end |-> TRUE, attrs |-> EmptyCtx,
     threads |-> <<>>, asked |-> {}]
\* An exception that no except clause of the handler catches (KeyError on a
\* subscript of attributes, OSError of makedirs): Flask answers 500.
Unhandled(asked) ==
    [code |-> 500, text |-> NoText, end |-> TRUE, attrs |-> EmptyCtx,
     threads |-> <<>>, asked |-> asked]

\* Lines 473-475.
ForceValue(req) ==
    IF Truthy(req.slots.SourceMode) THEN 1
    ELSE IF req.attrs.force_select = Missing THEN 0
    ELSE req.attrs.force_select
ForceSelect(req) == Truthy(ForceValue(req))
ManualMsg(req) == IF ForceSelect(req) THEN 1 ELSE 0

\* The source change taking the player choice from the request like the other intents.
ChangeSourceForceFromContext(req) == ForceSelect(req)

\* Lines 504 and 513: force_select=True is passed as a literal.
ChangeSourceForce(req) == TRUE

\* Lines 483-521.
ChangeSource(req, env, c, lang) ==
    IF ~ProbeResult(c, env.probe)
    THEN Say(Text("kodi_offline", lang, None, None, None, None), <<>>, {"probe"})
    ELSE
    LET player_id == get_kodi_active_player(c, env.players)
        item == IF player_id # None THEN get_kodi_player_item(c, env.item)
                ELSE ItemAns("none", "none", None, None, None, None, None)
        asked1 == IF player_id # None THEN {"probe", "players", "item"}
                  ELSE {"probe", "players"}
    IN  IF item.kind # "item"
        THEN Say(Text("nothing_playing", lang, None, None, None, None), <<>>, asked1)
        ELSE IF item.type = "movie"
        THEN LET m == search_tmdb_movie(c, env.movie)
             IN  IF Truthy(m.id)
                 THEN Say(Text("change_source_movie", lang, m.title, None, None, None),
                          <<Thread("change_source_worker",
                                   get_playback_url(m.id, "movie", None, None,
                                                    ChangeSourceForce(req)),
                                   player_id)>>,
                          asked1 \cup {"movie"})
                 ELSE Say(Text("content_error", lang, None, None, None, None), <<>>,
                          asked1 \cup {"movie"})
        ELSE IF item.type = "episode"
        THEN LET sh == search_tmdb_show(c, env.show)
             IN  IF Truthy(sh.id)
                 THEN Say(Text("change_source_episode", lang, sh.title, item.season,
                               item.episode, None),
                          <<Thread("change_source_worker",
                                   get_playback_url(sh.id, "episode", item.season,
                                                    item.episode, ChangeSourceForce(req)),
                                   player_id)>>,
                          asked1 \cup {"show"})
                 ELSE Say(Text("content_error", lang, None, None, None, None), <<>>,
                          asked1 \cup {"show"})
        ELSE Say(Text("content_error", lang, None, None, None, None), <<>>, asked1)

\* Lines 524-535.
ResumeTVShow(req, env, c, lang) ==
    LET query == req.slots.ShowName
        sh == search_tmdb_show(c, env.show)
        s == env.lk.res[1]
        e == env.lk.res[2]
    IN  IF ~Truthy(query) THEN Ask(Text("ask_show", lang, None, None, None, None), {})
        ELSE IF ~Truthy(sh.id)
        THEN Say(Text("show_not_found", lang, query, None, None, None), <<>>, {"show"})
        ELSE IF env.lk.raised THEN Unhandled({"show", "trakt"})
        ELSE IF Truthy(s) /\ Truthy(e)
        THEN Say(Text("resume_show", lang, sh.title, s, e, ManualMsg(req)),
                 <<Thread("worker_process",
                          get_playback_url(sh.id, "episode", s, e, ForceSelect(req)),
                          None)>>,
                 {"show", "trakt"})
        ELSE Ask(Text("no_progress", lang, sh.title, None, None, None), {"show", "trakt"})

\* Lines 537-549; the third argument of the text is the year suffix (0: empty).
PlayMovie(req, env, c, lang) ==
    LET query == req.slots.MovieName
        m == search_tmdb_movie(c, env.movie)
    IN  IF ~Truthy(query) THEN Ask(Text("ask_movie", lang, None, None, None, None), {})
        ELSE IF Truthy(m.id)
        THEN Say(Text("launch_movie", lang, m.title,
                      IF Truthy(m.year) THEN m.year ELSE 0, ManualMsg(req), None),
                 <<Thread("worker_process",
                          get_playback_url(m.id, "movie", None, None, ForceSelect(req)),
                          None)>>,
                 {"movie"})
        ELSE Say(Text("movie_not_found", lang, query, None, None, None), <<>>, {"movie"})

\* Lines 562-579, once the show is resolved to tmdb_id and title.
PlayResolvedShow(req, env, c, lang, tmdb_id, title, asked) ==
    LET season == req.slots.Season
        episode == req.slots.Episode
        last == get_tmdb_last_aired(c, env.last)
    IN  IF ~Truthy(tmdb_id)
        THEN Say(Text("show_not_found", lang, req.slots.ShowName, None, None, None),
                 <<>>, asked)
        ELSE IF Truthy(season) /\ Truthy(episode)
        THEN IF check_episode_exists(c, env.exists)
             THEN Say(Text("launch_show", lang, title, season, episode, ManualMsg(req)),
                      <<Thread("worker_process",
                               get_playback_url(tmdb_id, "episode", season, episode,
                                                ForceSelect(req)),
                               None)>>,
                      asked \cup {"exists"})
             ELSE Ask(Text("episode_not_found", lang, None, None, None, None),
                      asked \cup {"exists"})
        ELSE IF env.lk.raised THEN Unhandled(asked \cup {"trakt"})
        ELSE Response(
                 IF Truthy(env.lk.res[1])
                 THEN Text("ask_resume", lang, title, env.lk.res[1], env.lk.res[2], None)
                 ELSE Text("ask_start", lang, title, None, None, None),
                 FALSE,
                 Ctx(tmdb_id, title, "ask_playback_method",
                     ForceValue(req),
                     env.lk.res[1], env.lk.res[2], last[1], last[2]),
                 <<>>,
                 asked \cup {"trakt", "last"})

\* Lines 551-561.
PlayTVShow(req, env, c, lang) ==
    LET query == req.slots.ShowName
        sh == search_tmdb_show(c, env.show)
    IN  IF ~Truthy(query) /\ Truthy(Get(req.attrs.pending_show_id))
        THEN IF req.attrs.pending_show_name = Missing THEN Unhandled({})
             ELSE PlayResolvedShow(req, env, c, lang, req.attrs.pending_show_id,
                                   req.attrs.pending_show_name, {})
        ELSE IF Truthy(query)
        THEN PlayResolvedShow(req, env, c, lang, sh.id, sh.title, {"show"})
        ELSE Ask(Text("ask_which_show", lang, None, None, None, None), {})

\* Line 583: the context holds a next-unwatched candidate.
HasNextCandidate(attrs) == Truthy(Get(attrs.trakt_next_s))

\* Lines 581-593.
Affirmative(req, env, c, lang) ==
    IF req.attrs.step = "ask_playback_method"
    THEN IF HasNextCandidate(req.attrs)
         THEN IF \/ req.attrs.trakt_next_e = Missing
                 \/ req.attrs.pending_show_name = Missing
                 \/ req.attrs.pending_show_id = Missing
              THEN Unhandled({})
              ELSE Say(Text("resume_show", lang, req.attrs.pending_show_name,
                            req.attrs.trakt_next_s, req.attrs.trakt_next_e,
                            ManualMsg(req)),
                       <<Thread("worker_process",
                                get_playback_url(req.attrs.pending_show_id, "episode",
                                                 req.attrs.trakt_next_s,
                                                 req.attrs.trakt_next_e, ForceSelect(req)),
                                None)>>,
                       {})
         ELSE Ask(Text("no_history", lang, None, None, None, None), {})
    ELSE Say(Text("nothing_pending", lang, None, None, None, None), <<>>, {})

\* Lines 595-602; 'show' (title 0) stands in for an absent pending_show_name.
LatestEpisode(req, env, c, lang) ==
    IF req.attrs.step = "ask_playback_method"
    THEN IF \/ req.attrs.tmdb_last_s = Missing
            \/ req.attrs.tmdb_last_e = Missing
            \/ req.attrs.pending_show_id = Missing
         THEN Unhandled({})
         ELSE Say(Text("launch_last", lang,
                       IF req.attrs.pending_show_name = Missing THEN 0
                       ELSE req.attrs.pending_show_name, None, None, None),
                  <<Thread("worker_process",
                           get_playback_url(req.attrs.pending_show_id, "episode",
                                            req.attrs.tmdb_last_s,
                                            req.attrs.tmdb_last_e, ForceSelect(req)),
                           None)>>,
                  {})
    ELSE Say(Text("unavailable", lang, None, None, None, None), <<>>, {})

\* Line 607: the fall-through reply.
NotUnderstood(req, lang) ==
    Say(Text("not_understood", lang, None, None, None, None), <<>>, {})

\* Line 455, `not req_data or 'request' not in req_data`: the operator `in`
\* raises TypeError on a number, looks for an element in a list and for a
\* substring in a string; line 457 then subscripts what passed.
BodyCheck(req) ==
    IF req.body = "falsy" THEN "reject"
    ELSE IF req.body = "scalar" THEN "raise"
    ELSE IF req.body = "seq_without" THEN "reject"
    ELSE IF req.body = "seq_with" THEN "pass"
    ELSE IF req.has_request THEN "pass" ELSE "reject"

\* alexa_handler, lines 452-607.
alexa_handler(req, env, c) ==
    LET lang == LangOf(req.locale)
    IN  IF BodyCheck(req) = "reject" THEN InvalidRequest
        ELSE IF BodyCheck(req) = "raise" \/ req.body # "object" THEN Unhandled({})
        ELSE IF req.type = "LaunchRequest"
        THEN Ask(Text("launch", lang, None, None, None, None), {})
        ELSE IF req.type # "IntentRequest" THEN NotUnderstood(req, lang)
        ELSE IF req.intent = "TriggerPatcherIntent"
        THEN Say(Text("patcher_triggered", lang, None, None, None, None),
                 <<Thread("check_and_patch_fenlight", NoUrl, None)>>, {})
        ELSE IF req.intent = "ChangeSourceIntent" THEN ChangeSource(req, env, c, lang)
        ELSE IF req.intent = "ResumeTVShowIntent" THEN ResumeTVShow(req, env, c, lang)
        ELSE IF req.intent = "PlayMovieIntent" THEN PlayMovie(req, env, c, lang)
        ELSE IF req.intent = "PlayTVShowIntent" THEN PlayTVShow(req, env, c, lang)
        ELSE IF req.intent \in {"AMAZON.YesIntent", "ResumeIntent", "ReprendreIntent"}
        THEN Affirmative(req, env, c, lang)
        ELSE IF req.intent = "LatestEpisodeIntent" THEN LatestEpisode(req, env, c, lang)
        ELSE IF req.intent \in {"AMAZON.NoIntent", "AMAZON.StopIntent", "AMAZON.CancelIntent"}
        THEN Say(Text("cancelled", lang, None, None, None, None), <<>>, {})
        ELSE NotUnderstood(req, lang)

\* ------------------------------------------------- requests and answers

ReqData(has_request, type, intent, slots, attrs, locale) ==
    [has_request |-> has_request, type |-> type, intent |-> intent,
     slots |-> slots, attrs |-> attrs, locale |-> locale, body |-> "object"]
NoSlots == Slots(None, None, None, None, None, None)
\* A body without the 'request' key.
MalformedBody == ReqData(FALSE, "none", "none", NoSlots, EmptyCtx, "missing")

\* What request.get_json() can return besides an object with the key:
\*   "object"      a non-empty JSON object without the key,
\*   "falsy"       null, {}, [], "", 0 or false,
\*   "scalar"      a non-zero number or true,
\*   "seq_without" a non-empty list or string that does not hold 'request',
\*   "seq_with"    a list with the element 'request' or a string containing it.
BodyKinds == {"object", "falsy", "scalar", "seq_without", "seq_with"}
MalformedBodies == {[MalformedBody EXCEPT !.body = b] : b \in BodyKinds}

\* The intent names the handler knows, and one it does not.
Intents ==
    {"TriggerPatcherIntent", "ChangeSourceIntent", "ResumeTVShowIntent",
     "PlayMovieIntent", "PlayTVShowIntent", "AMAZON.YesIntent", "ResumeIntent",
     "ReprendreIntent", "LatestEpisodeIntent", "AMAZON.NoIntent",
     "AMAZON.StopIntent", "AMAZON.CancelIntent", "AMAZON.HelpIntent"}

\* The slots an intent can carry; modes: the values of SourceMode.
SlotsFor(intent, modes) ==
    IF intent = "PlayTVShowIntent"
    THEN {Slots(sh, se, ep, None, None, m) :
             sh \in {None, 31}, se \in {None, 1}, ep \in {None, 2}, m \in modes}
    ELSE IF intent = "PlayMovieIntent"
    THEN {Slots(None, None, None, mv, y, m) :
             mv \in {None, 41}, y \in {None, 1999}, m \in modes}
    ELSE IF intent = "ResumeTVShowIntent"
    THEN {Slots(sh, None, None, None, None, m) : sh \in {None, 31}, m \in modes}
    ELSE {Slots(None, None, None, None, None, m) : m \in modes}

RequestsOver(ctxs, locales, modes) ==
    MalformedBodies
    \cup {ReqData(TRUE, t, "none", NoSlots, a, loc) :
             t \in {"LaunchRequest", "SessionEndedRequest"}, a \in ctxs, loc \in locales}
    \cup UNION {{ReqData(TRUE, "IntentRequest", i, sl, a, loc) :
                    sl \in SlotsFor(i, modes), a \in ctxs, loc \in locales} :
                i \in Intents}

\* Contexts that no reply of the handler produced: keys are absent.
ForeignContexts ==
    {Ctx(10, 11, "ask_playback_method", 0, 3, 5, Missing, Missing),
     Ctx(10, Missing, "ask_playback_method", 0, 3, 5, 4, 6),
     Ctx(Missing, 11, "ask_playback_method", Missing, 3, 5, 4, 6),
     Ctx(10, Missing, "missing", Missing, Missing, Missing, Missing, Missing)}

\* The context a request carries: the one the platform echoes; a caller that
\* opens a session may send any.
InboundContexts(echo) ==
    {echo} \cup (IF echo = EmptyCtx THEN ForeignContexts ELSE {})

\* What the outside answers while one request is handled.  A service that the
\* handler did not call has the answer of Unasked.
Env(pr, players, item, movie, show, exists, last, lookup) ==
    [probe |-> pr, players |-> players, item |-> item, movie |-> movie,
     show |-> show, exists |-> exists, last |-> last, lk |-> lookup]
NoLookup == [raised |-> FALSE, res |-> <<None, None>>]
Unasked ==
    Env(Missing, Missing, ItemAns("unasked", "none", None, None, None, None, None),
        MovieAns("unasked", None, None, None), ShowAns("unasked", None, None),
        Missing, EpisodeAns("unasked", None, None), NoLookup)

MovieAnswers == {MovieAns("item", 20, 21, 1999), MovieAns("none", None, None, None)}
ShowAnswers == {ShowAns("item", 10, 11), ShowAns("raised", None, None)}
LastAnswers == {EpisodeAns("item", 4, 6), EpisodeAns("none", None, None)}
ExistsAnswers == {200, 404, Raised}
PlayerAnswers == {None, 1}
ItemAnswers ==
    {ItemAns("item", "movie", 51, 1999, None, None, None),
     ItemAns("item", "episode", 53, None, 52, 1, 2),
     ItemAns("item", "song", 54, None, None, None, None),
     ItemAns("none", "none", None, None, None, None, None)}

\* The answers to the services an intent can call (the lookup apart).
EnvChoices(req) ==
    IF req.type # "IntentRequest" THEN {Unasked}
    ELSE IF req.intent = "ChangeSourceIntent"
    THEN {[Unasked EXCEPT !.probe = pr, !.players = pl, !.item = it, !.movie = m,
                          !.show = sh] :
             pr \in {200, Raised}, pl \in PlayerAnswers, it \in ItemAnswers,
             m \in MovieAnswers, sh \in ShowAnswers}
    ELSE IF req.intent = "ResumeTVShowIntent"
    THEN {[Unasked EXCEPT !.show = sh] : sh \in ShowAnswers}
    ELSE IF req.intent = "PlayMovieIntent"
    THEN {[Unasked EXCEPT !.movie = m] : m \in MovieAnswers}
    ELSE IF req.intent = "PlayTVShowIntent"
    THEN {[Unasked EXCEPT !.show = sh, !.exists = ex, !.last = la] :
             sh \in ShowAnswers, ex \in ExistsAnswers, la \in LastAnswers}
    ELSE {Unasked}

\* env with the answers of the services in asked only.
Canon(env, asked) ==
    Env(IF "probe" \in asked THEN env.probe ELSE Unasked.probe,
        IF "players" \in asked THEN env.players ELSE Unasked.players,
        IF "item" \in asked THEN env.item ELSE Unasked.item,
        IF "movie" \in asked THEN env.movie ELSE Unasked.movie,
        IF "show" \in asked THEN env.show ELSE Unasked.show,
        IF "exists" \in asked THEN env.exists ELSE Unasked.exists,
        IF "last" \in asked THEN env.last ELSE Unasked.last,
        IF "trakt" \in asked THEN env.lk ELSE Unasked.lk)

\* --------------------------------------- the lookup inside one request

LookupNext(l, st, c) ==
    CASE l.pc = "load" -> LoadStep(l, st, c)
      [] l.pc = "boot_open" -> BootOpenStep(l, st, c)
      [] l.pc = "boot_dump" -> BootDumpStep(l, st, c)
      [] l.pc = "get" -> GetStep(l, st, c)
      [] l.pc = "rt_read" -> RefreshReadStep(l, st, c)
      [] l.pc = "rt_post" -> RefreshPostStep(l, st, c)
      [] l.pc = "rt_open" -> RefreshOpenStep(l, st, c)
      [] l.pc = "rt_dump" -> RefreshDumpStep(l, st, c)
      [] l.pc = "retry" -> RetryStep(l, st, c)

RECURSIVE LookupRuns(_, _, _)
LookupRuns(l, st, c) ==
    IF l.pc \in {"done", "raised"} THEN {<<l, st>>}
    ELSE UNION {LookupRuns(n[1], n[2], c) : n \in LookupNext(l, st, c)}

\* get_trakt_next_episode run to its end from store st: the ways it can end,
\* each with the result, the store it leaves and the answers it received.
get_trakt_next_episode(st, c) ==
    {[raised |-> r[1].pc = "raised", res |-> r[1].res, store |-> r[2],
      ora |-> r[1].ora] : r \in LookupRuns([Idle EXCEPT !.pc = "load"], st, c)}

\* A request that does not come to the lookup.
NoRun(st) == [raised |-> FALSE, res |-> <<None, None>>, store |-> st, ora |-> Idle.ora]

\* The runs to consider for req, out of runs.
RunsFor(req, runs, st) ==
    IF req.type = "IntentRequest" /\ req.intent \in {"ResumeTVShowIntent", "PlayTVShowIntent"}
    THEN runs ELSE {NoRun(st)}

\* alexa_handler on req, answered by env0 and, in the lookup, as in run r.
Handling(req, env0, r, st, c) ==
    LET env == [env0 EXCEPT !.lk = [raised |-> r.raised, res |-> r.res]]
        resp == alexa_handler(req, env, c)
        looked == "trakt" \in resp.asked
    IN  [req |-> req, env |-> Canon(env, resp.asked), resp |-> resp,
         store |-> IF looked THEN r.store ELSE st,
         ora |-> IF looked THEN r.ora ELSE Idle.ora]

NoTurn == [state |-> "idle", req |-> MalformedBody, env |-> Unasked, resp |-> InvalidRequest]
NoProbe ==
    [state |-> "none", req |-> MalformedBody, env |-> Unasked, resp |-> InvalidRequest,
     ora |-> Idle.ora]

\* ---------------------------------------------------------------- actions

CurStore == Store(tokenFile, dataDir, minted)

Apply(pcName, next) ==
    /\ lk.pc = pcName
    /\ \E n \in next :
        /\ lk' = n[1]
        /\ tokenFile' = n[2].file
        /\ dataDir' = n[2].dir
        /\ minted' = n[2].minted
    /\ UNCHANGED <<dialogVars, cfg, lk2, deviceVars>>

\* get_trakt_next_episode is called.
StartLookup ==
    /\ lk.pc = "idle"
    /\ lk' = [Carry(lk) EXCEPT !.pc = "load"]
    /\ UNCHANGED <<dialogVars, cfg, lk2, storeVars, deviceVars>>

LoadToken == Apply("load", LoadStep(lk, CurStore, cfg))
BootstrapOpen == Apply("boot_open", BootOpenStep(lk, CurStore, cfg))
BootstrapDump == Apply("boot_dump", BootDumpStep(lk, CurStore, cfg))
Request == Apply("get", GetStep(lk, CurStore, cfg))
\* A refresh that waits while the other request's refresh is under way.
MayRefreshSingleFlight(other) ==
    other.pc \notin {"rt_read", "rt_post", "rt_open", "rt_dump"}

\* refresh_trakt_token_online, lines 122-148, and make_request, lines 355-356:
\* no lock is taken, so a refresh never waits for the other request's.
MayRefresh(other) == TRUE

RefreshRead ==
    /\ lk.pc = "rt_read" => MayRefresh(lk2)
    /\ Apply("rt_read", RefreshReadStep(lk, CurStore, cfg))
RefreshPost == Apply("rt_post", RefreshPostStep(lk, CurStore, cfg))
RefreshOpen == Apply("rt_open", RefreshOpenStep(lk, CurStore, cfg))
RefreshDump == Apply("rt_dump", RefreshDumpStep(lk, CurStore, cfg))
Retry == Apply("retry", RetryStep(lk, CurStore, cfg))

\* The call returned (or raised) and the caller goes on.
ReturnLookup ==
    /\ lk.pc \in {"done", "raised"}
    /\ lk' = Carry(lk)
    /\ UNCHANGED <<dialogVars, cfg, lk2, storeVars, deviceVars>>

Configs ==
    [client_id : BOOLEAN, client_secret : BOOLEAN,
     env_access : {None, 1}, env_refresh : {None, 1},
     tmdb_key : BOOLEAN, shield_ip : BOOLEAN, shield_mac : BOOLEAN,
     kodi_port : BOOLEAN]

TraktConfigs ==
    {c \in Configs : c.tmdb_key /\ c.shield_ip /\ c.shield_mac /\ c.kodi_port}

InitialFiles == {FileAbsent, FileBroken, FileRecord(2, 2), FileRecord(2, None)}

InitTrakt ==
    /\ cfg \in TraktConfigs
    /\ tokenFile \in InitialFiles
    /\ dataDir \in BOOLEAN
    /\ tokenFile.kind # "absent" => dataDir
    /\ minted = 0
    /\ lk = Idle
    /\ lk2 = Idle
    /\ kodi = "down"
    /\ wk = IdleWorker
    /\ sent = <<>>
    /\ wk2 = IdleWorker
    /\ arrived = <<>>
    /\ session = EmptyCtx
    /\ turn = NoTurn
    /\ probe = NoProbe

NextTrakt ==
    \/ StartLookup
    \/ LoadToken
    \/ BootstrapOpen
    \/ BootstrapDump
    \/ Request
    \/ RefreshRead
    \/ RefreshPost
    \/ RefreshOpen
    \/ RefreshDump
    \/ Retry
    \/ ReturnLookup

SpecTrakt == InitTrakt /\ [][NextTrakt]_vars

\* ------------------------------------------------- two concurrent lookups

\* Two request threads of the threaded server run get_trakt_next_episode at
\* once over the same TOKEN_FILE; their steps interleave freely.
StartLookup2 ==
    /\ lk2.pc = "idle"
    /\ lk2' = [Carry(lk2) EXCEPT !.pc = "load"]
    /\ UNCHANGED <<dialogVars, cfg, lk, storeVars, deviceVars>>

\* The next step of the second call, whichever it is.
Step2 ==
    /\ lk2.pc \notin {"idle", "done", "raised"}
    /\ lk2.pc = "rt_read" => MayRefresh(lk)
    /\ \E n \in LookupNext(lk2, CurStore, cfg) :
        /\ lk2' = n[1]
        /\ tokenFile' = n[2].file
        /\ dataDir' = n[2].dir
        /\ minted' = n[2].minted
    /\ UNCHANGED <<dialogVars, cfg, lk, deviceVars>>

\* A deployment with the progress service configured and a complete record on
\* disk; the bootstrap pair is configured or not.
RaceConfigs ==
    {c \in TraktConfigs :
        /\ c.client_id /\ c.client_secret
        /\ Truthy(c.env_access) <=> Truthy(c.env_refresh)}

InitRace ==
    /\ cfg \in RaceConfigs
    /\ tokenFile = FileRecord(2, 2)
    /\ dataDir = TRUE
    /\ minted = 0
    /\ lk = Idle
    /\ lk2 = Idle
    /\ kodi = "down"
    /\ wk = IdleWorker
    /\ sent = <<>>
    /\ wk2 = IdleWorker
    /\ arrived = <<>>
    /\ session = EmptyCtx
    /\ turn = NoTurn
    /\ probe = NoProbe

NextRace ==
    \/ StartLookup
    \/ LoadToken
    \/ BootstrapOpen
    \/ BootstrapDump
    \/ Request
    \/ RefreshRead
    \/ RefreshPost
    \/ RefreshOpen
    \/ RefreshDump
    \/ Retry
    \/ StartLookup2
    \/ Step2

SpecRace == InitRace /\ [][NextRace]_vars


\* ---------------------------------------------------------- worker actions

\* The player commands of out that reach the device: requests.post gets
\* through when the control endpoint is listening, else it raises and the
\* worker goes on (lines 344-345, 439-440).
Reaching(out, k) ==
    IF k = "up"
    THEN SelectSeq(out, LAMBDA c : c.cmd \in {"Player.Open", "Player.Stop"})
    ELSE <<>>

\* Workers taking their turns on the device one after the other.
MayActExclusive(other) == other.pc \in {"idle", "end"}

\* worker_process and change_source_worker, lines 429-446: no lock, queue or
\* flag is shared between worker threads, a step never waits for another worker.
MayAct(other) == TRUE

Work(pcName, next) ==
    /\ wk.pc = pcName
    /\ MayAct(wk2)
    /\ \E n \in next :
        /\ wk' = n.w
        /\ sent' = sent \o n.out
        /\ arrived' = arrived \o Reaching(n.out, kodi)
    /\ UNCHANGED <<dialogVars, cfg, storeVars, lk, lk2, kodi, wk2>>

\* threading.Thread(target=worker_process, args=(url,)).start()  or
\* threading.Thread(target=change_source_worker, args=(player_id, url)).start()
StartWorker(task, url, player) ==
    /\ wk.pc = "idle"
    /\ wk' = [IdleWorker EXCEPT !.pc = IF task = "change_source_worker" THEN "stop" ELSE "wake",
                                !.task = task, !.url = url, !.player = player]
    /\ sent' = <<>>
    /\ arrived' = <<>>
    /\ UNCHANGED <<dialogVars, cfg, storeVars, lk, lk2, kodi, wk2>>

\* alexa_handler, lines 484-519: change_source_worker is started only after
\* is_kodi_responsive answered True, which needs KODI_BASE_URL.
StartChangeSource(url, player) ==
    /\ KODI_BASE_URL(cfg)
    /\ StartWorker("change_source_worker", url, player)

StopPlayback == Work("stop", StopStep(wk, cfg, kodi))
Settle == Work("settle", SettleStep(wk, cfg, kodi))
WakeCall == Work("wake", WakeCallStep(wk, cfg, kodi))
SendMagicPacket == Work("wol", WolStep(wk, cfg, kodi))
AdbConnect == Work("adb_connect", AdbConnectStep(wk, cfg, kodi))
WakeKey1 == Work("key1", Key1Step(wk, cfg, kodi))
WakeKey2 == Work("key2", Key2Step(wk, cfg, kodi))
Probe2 == Work("probe2", Probe2Step(wk, cfg, kodi))
LaunchApp == Work("am_start", AmStartStep(wk, cfg, kodi))
Poll == Work("poll", PollStep(wk, cfg, kodi))
PlayerOpen == Work("after_wake", OpenStep(wk, cfg, kodi))

\* The worker thread ends.
WorkerExit ==
    /\ wk.pc = "end"
    /\ wk' = IdleWorker
    /\ UNCHANGED <<dialogVars, cfg, storeVars, lk, lk2, kodi, sent, wk2, arrived>>

\* The device falls asleep or comes up (by itself or woken by a command).
DeviceChanges ==
    /\ kodi' = IF kodi = "up" THEN "down" ELSE "up"
    /\ UNCHANGED <<dialogVars, cfg, storeVars, lk, lk2, wk, sent, wk2, arrived>>

WorkerUrls ==
    {get_playback_url(1, "movie", None, None, FALSE),
     get_playback_url(2, "episode", 3, 5, TRUE)}

InitWake ==
    /\ cfg \in {c \in Configs : c.client_id /\ c.client_secret /\ c.tmdb_key
                                /\ c.env_access = 1 /\ c.env_refresh = 1}
    /\ tokenFile = FileAbsent
    /\ dataDir = FALSE
    /\ minted = 0
    /\ lk = Idle
    /\ lk2 = Idle
    /\ kodi \in {"up", "down"}
    /\ wk = IdleWorker
    /\ sent = <<>>
    /\ wk2 = IdleWorker
    /\ arrived = <<>>
    /\ session = EmptyCtx
    /\ turn = NoTurn
    /\ probe = NoProbe

NextWake ==
    \/ \E u \in WorkerUrls : StartWorker("worker_process", u, None)
    \/ \E u \in WorkerUrls : StartChangeSource(u, 1)
    \/ StopPlayback
    \/ Settle
    \/ WakeCall
    \/ SendMagicPacket
    \/ AdbConnect
    \/ WakeKey1
    \/ WakeKey2
    \/ Probe2
    \/ LaunchApp
    \/ Poll
    \/ PlayerOpen
    \/ WorkerExit
    \/ DeviceChanges

SpecWake == InitWake /\ [][NextWake]_vars

\* --------------------------------------------------------- dialogue actions

Locales == {"missing", "en-US"}
SourceModes == {None, 1}

\* One POST /alexa-webhook: the whole of alexa_handler, lookup included.
Handle ==
    /\ turn.state = "idle"
    /\ LET runs == {[r EXCEPT !.ora = Idle.ora] : r \in get_trakt_next_episode(CurStore, cfg)}
       IN  \E req \in RequestsOver(InboundContexts(session), Locales, SourceModes) :
           \E h \in {Handling(req, env0, r, CurStore, cfg) :
                        env0 \in EnvChoices(req), r \in RunsFor(req, runs, CurStore)} :
               /\ turn' = [state |-> "replied", req |-> h.req, env |-> h.env,
                           resp |-> h.resp]
               /\ tokenFile' = h.store.file
               /\ dataDir' = h.store.dir
               /\ minted' = h.store.minted
    /\ UNCHANGED <<cfg, lk, lk2, deviceVars, session, probe>>

\* The platform takes the reply: an open session echoes its attributes on the
\* next request, a closed one is followed by a new session.
Deliver ==
    /\ turn.state = "replied"
    /\ turn' = NoTurn
    /\ session' = IF turn.resp.code = 200 /\ ~turn.resp.end THEN turn.resp.attrs
                  ELSE EmptyCtx
    /\ UNCHANGED <<cfg, storeVars, lk, lk2, deviceVars, probe>>

\* The user leaves the session open until the platform closes it.
SessionEnds ==
    /\ turn.state = "idle"
    /\ session # EmptyCtx
    /\ session' = EmptyCtx
    /\ UNCHANGED <<cfg, storeVars, lk, lk2, deviceVars, turn, probe>>

DialogueConfigs ==
    {c \in Configs : /\ c.client_id /\ c.client_secret /\ c.shield_mac /\ c.kodi_port
                     /\ c.shield_ip /\ c.tmdb_key
                     /\ (c.env_access = None <=> c.env_refresh = None)}

InitDialogue ==
    /\ cfg \in DialogueConfigs
    /\ tokenFile \in {FileAbsent, FileRecord(2, 2)}
    /\ dataDir \in BOOLEAN
    /\ tokenFile.kind # "absent" => dataDir
    /\ minted = 0
    /\ lk = Idle
    /\ lk2 = Idle
    /\ kodi = "down"
    /\ wk = IdleWorker
    /\ sent = <<>>
    /\ wk2 = IdleWorker
    /\ arrived = <<>>
    /\ session = EmptyCtx
    /\ turn = NoTurn
    /\ probe = NoProbe

NextDialogue ==
    \/ Handle
    \/ Deliver
    \/ SessionEnds

SpecDialogue == InitDialogue /\ [][NextDialogue]_vars

\* ----------------------------------------------------------- replay actions

\* The requests that are replayed.
ReplayContexts == {EmptyCtx, Ctx(10, 11, "ask_playback_method", 0, 3, 5, 4, 6)}
ReplayRequests == RequestsOver(ReplayContexts, {"en-US"}, {None})
\* The requests that are handled in between.
OtherRequests ==
    {ReqData(TRUE, "IntentRequest", "ResumeTVShowIntent",
             Slots(31, None, None, None, None, None), EmptyCtx, "en-US")}

\* Two lookups were answered alike: call by call, each service gave both the
\* same answer, as far as both called it.
Agree(s1, s2) ==
    \A i \in 1..(IF Len(s1) < Len(s2) THEN Len(s1) ELSE Len(s2)) : s1[i] = s2[i]
SameOracle(o1, o2) ==
    Agree(o1.get, o2.get) /\ Agree(o1.post, o2.post) /\ Agree(o1.fs, o2.fs)

\* env answers as p did, wherever p was asked.
SameAnswers(env, p) ==
    /\ p.probe = Unasked.probe \/ env.probe = p.probe
    /\ p.players = Unasked.players \/ env.players = p.players
    /\ p.item = Unasked.item \/ env.item = p.item
    /\ p.movie = Unasked.movie \/ env.movie = p.movie
    /\ p.show = Unasked.show \/ env.show = p.show
    /\ p.exists = Unasked.exists \/ env.exists = p.exists
    /\ p.last = Unasked.last \/ env.last = p.last

\* A request is handled and kept aside.
ReplayFirst ==
    /\ probe.state = "none"
    /\ LET runs == get_trakt_next_episode(CurStore, cfg)
       IN  \E req \in ReplayRequests :
           \E h \in {Handling(req, env0, r, CurStore, cfg) :
                        env0 \in EnvChoices(req), r \in RunsFor(req, runs, CurStore)} :
               /\ probe' = [state |-> "kept", req |-> h.req, env |-> h.env,
                            resp |-> h.resp, ora |-> h.ora]
               /\ tokenFile' = h.store.file
               /\ dataDir' = h.store.dir
               /\ minted' = h.store.minted
    /\ UNCHANGED <<cfg, lk, lk2, deviceVars, session, turn>>

\* Some other request is handled in between.
ReplayOther ==
    /\ probe.state = "kept"
    /\ LET runs == get_trakt_next_episode(CurStore, cfg)
       IN  \E req \in OtherRequests :
           \E st \in {Handling(req, env0, r, CurStore, cfg).store :
                         env0 \in EnvChoices(req), r \in RunsFor(req, runs, CurStore)} :
               /\ st # CurStore
               /\ tokenFile' = st.file
               /\ dataDir' = st.dir
               /\ minted' = st.minted
    /\ UNCHANGED <<cfg, lk, lk2, deviceVars, session, turn, probe>>

\* The kept request is handled again, the outside answering as it did.
ReplayAgain ==
    /\ probe.state = "kept"
    /\ LET runs == get_trakt_next_episode(CurStore, cfg)
       IN  \E h \in {Handling(probe.req, env0, r, CurStore, cfg) :
                        env0 \in {e \in EnvChoices(probe.req) : SameAnswers(e, probe.env)},
                        r \in {x \in RunsFor(probe.req, runs, CurStore) :
                                  SameOracle(x.ora, probe.ora)}} :
               /\ turn' = [state |-> "replayed", req |-> h.req, env |-> h.env,
                           resp |-> h.resp]
               /\ tokenFile' = h.store.file
               /\ dataDir' = h.store.dir
               /\ minted' = h.store.minted
    /\ UNCHANGED <<cfg, lk, lk2, deviceVars, session, probe>>

ReplayConfigs == {c \in DialogueConfigs : HasBootstrap(c)}

InitReplay ==
    /\ cfg \in ReplayConfigs
    /\ tokenFile \in {FileAbsent, FileRecord(2, 2)}
    /\ dataDir \in BOOLEAN
    /\ tokenFile.kind # "absent" => dataDir
    /\ minted = 0
    /\ lk = Idle
    /\ lk2 = Idle
    /\ kodi = "down"
    /\ wk = IdleWorker
    /\ sent = <<>>
    /\ wk2 = IdleWorker
    /\ arrived = <<>>
    /\ session = EmptyCtx
    /\ turn = NoTurn
    /\ probe = NoProbe

NextReplay ==
    \/ ReplayFirst
    \/ ReplayOther
    \/ ReplayAgain

SpecReplay == InitReplay /\ [][NextReplay]_vars

\* ------------------------------------------- a request and its worker

\* The threads of a reply that dispatch playback.
Playback(resp) ==
    SelectSeq(resp.threads,
              LAMBDA th : th.target \in {"worker_process", "change_source_worker"})

\* A reply that reports the outcome of the worker it started.
ReplyOfJoined(resp, w) ==
    IF w.pc = "end" /\ ~w.ret THEN [resp EXCEPT !.text.key = "kodi_offline"] ELSE resp

\* Lines 518-519, 532-533, 544-545, 565-566, 587-588, 600-601: the reply is
\* built from the handler's own values in the statement after Thread.start().
ReplyOf(resp, w) == resp

\* alexa_handler up to its return statement: the catalogue, the device and the
\* progress service have answered and the thread of the branch is started.
\* The device answers the probe of ChangeSourceIntent as it is; the lookups
\* considered are those in which the token needed no refresh.
Receive ==
    /\ turn.state = "idle"
    /\ wk.pc = "idle"
    /\ LET runs == {[r EXCEPT !.ora = Idle.ora] : r \in get_trakt_next_episode(CurStore, cfg)}
       IN  \E req \in RequestsOver({session}, {"en-US"}, SourceModes) :
           \E h \in {Handling(req, env0, r, CurStore, cfg) :
                        env0 \in {e \in EnvChoices(req) :
                                     e.probe # Missing => e.probe \in ProbeAnswers(kodi)},
                        r \in {x \in RunsFor(req, runs, CurStore) : x.store = CurStore}} :
               /\ turn' = [state |-> "handling", req |-> h.req, env |-> h.env,
                           resp |-> h.resp]
               /\ tokenFile' = h.store.file
               /\ dataDir' = h.store.dir
               /\ minted' = h.store.minted
               /\ IF Playback(h.resp) # <<>>
                  THEN LET th == Playback(h.resp)[1]
                       IN  /\ wk' = [IdleWorker EXCEPT
                                        !.pc = IF th.target = "change_source_worker"
                                               THEN "stop" ELSE "wake",
                                        !.task = th.target, !.url = th.url,
                                        !.player = th.player]
                  ELSE wk' = wk
    /\ sent' = <<>>
    /\ arrived' = <<>>
    /\ UNCHANGED <<cfg, lk, lk2, kodi, wk2, session, probe>>

\* return jsonify(build_response(...)): the reply leaves the handler.
Reply ==
    /\ turn.state = "handling"
    /\ turn' = [turn EXCEPT !.state = "replied", !.resp = ReplyOf(turn.resp, wk)]
    /\ UNCHANGED <<cfg, storeVars, lk, lk2, deviceVars, session, probe>>

DispatchConfigs == {c \in DialogueConfigs : HasBootstrap(c)}

InitDispatch ==
    /\ cfg \in DispatchConfigs
    /\ tokenFile = FileRecord(2, 2)
    /\ dataDir = TRUE
    /\ minted = 0
    /\ lk = Idle
    /\ lk2 = Idle
    /\ kodi \in {"up", "down"}
    /\ wk = IdleWorker
    /\ sent = <<>>
    /\ wk2 = IdleWorker
    /\ arrived = <<>>
    /\ session = EmptyCtx
    /\ turn = NoTurn
    /\ probe = NoProbe

NextDispatch ==
    \/ Receive
    \/ Reply
    \/ Deliver
    \/ SessionEnds
    \/ StopPlayback
    \/ Settle
    \/ WakeCall
    \/ SendMagicPacket
    \/ AdbConnect
    \/ WakeKey1
    \/ WakeKey2
    \/ Probe2
    \/ LaunchApp
    \/ Poll
    \/ PlayerOpen
    \/ WorkerExit
    \/ DeviceChanges

SpecDispatch == InitDispatch /\ [][NextDispatch]_vars

\* ------------------------------------------------------------ two workers

\* The step a worker takes next, by its position.
WorkerNext(w, c, k) ==
    CASE w.pc = "stop" -> StopStep(w, c, k)
      [] w.pc = "settle" -> SettleStep(w, c, k)
      [] w.pc = "wake" -> WakeCallStep(w, c, k)
      [] w.pc = "wol" -> WolStep(w, c, k)
      [] w.pc = "adb_connect" -> AdbConnectStep(w, c, k)
      [] w.pc = "key1" -> Key1Step(w, c, k)
      [] w.pc = "key2" -> Key2Step(w, c, k)
      [] w.pc = "probe2" -> Probe2Step(w, c, k)
      [] w.pc = "am_start" -> AmStartStep(w, c, k)
      [] w.pc = "poll" -> PollStep(w, c, k)
      [] w.pc = "after_wake" -> OpenStep(w, c, k)

\* A later request starts its worker thread while the first one is running or
\* has ended.
StartSecond(task, url, player) ==
    /\ wk.pc # "idle"
    /\ wk2.pc = "idle"
    /\ wk2' = [IdleWorker EXCEPT
                  !.pc = IF task = "change_source_worker" THEN "stop" ELSE "wake",
                  !.task = task, !.url = url, !.player = player]
    /\ UNCHANGED <<dialogVars, cfg, storeVars, lk, lk2, kodi, wk, sent, arrived>>

\* The next step of the second worker, whichever it is.
Work2 ==
    /\ wk2.pc \notin {"idle", "end"}
    /\ MayAct(wk)
    /\ \E n \in WorkerNext(wk2, cfg, kodi) :
        /\ wk2' = n.w
        /\ arrived' = arrived \o Reaching(n.out, kodi)
    /\ UNCHANGED <<dialogVars, cfg, storeVars, lk, lk2, kodi, wk, sent>>

InitWorkers ==
    /\ cfg \in DispatchConfigs
    /\ tokenFile = FileRecord(2, 2)
    /\ dataDir = TRUE
    /\ minted = 0
    /\ lk = Idle
    /\ lk2 = Idle
    /\ kodi \in {"up", "down"}
    /\ wk = IdleWorker
    /\ sent = <<>>
    /\ wk2 = IdleWorker
    /\ arrived = <<>>
    /\ session = EmptyCtx
    /\ turn = NoTurn
    /\ probe = NoProbe

NextWorkers ==
    \/ \E t \in {"worker_process", "change_source_worker"} :
          StartWorker(t, get_playback_url(1, "movie", None, None, FALSE),
                      IF t = "worker_process" THEN None ELSE 1)
    \/ \E t \in {"worker_process", "change_source_worker"} :
          StartSecond(t, get_playback_url(2, "episode", 3, 5, TRUE),
                      IF t = "worker_process" THEN None ELSE 1)
    \/ StopPlayback
    \/ Settle
    \/ WakeCall
    \/ SendMagicPacket
    \/ AdbConnect
    \/ WakeKey1
    \/ WakeKey2
    \/ Probe2
    \/ LaunchApp
    \/ Poll
    \/ PlayerOpen
    \/ Work2
    \/ DeviceChanges

SpecWorkers == InitWorkers /\ [][NextWorkers]_vars

\* ------------------------------------------------- a worker that keeps running

\* The worker thread takes its next step. Every blocking call of the worker
\* is bounded (requests timeout=2 and timeout=5, subprocess timeout=5,
\* time.sleep of 0.5, 1, 2 and 4 seconds), so a thread the interpreter keeps
\* scheduling always gets to its next statement.
WorkerRuns ==
    /\ wk.pc \notin {"idle", "end"}
    /\ Work(wk.pc, WorkerNext(wk, cfg, kodi))

SpecWakeFair == InitWake /\ [][NextWake]_vars /\ WF_vars(WorkerRuns)

\* ------------------------------------------------- claims on the lookup

Indices(kind) == {i \in 1..Len(lk.log) : lk.log[i].ev = kind}
IndicesFor(kind, url) == {i \in Indices(kind) : lk.log[i].url = url}
First(S) == CHOOSE i \in S : \A j \in S : i <= j
Last(S) == CHOOSE i \in S : \A j \in S : j <= i

\* The scenario of C1: the lookup ended, its first request carried the stored
\* token and was answered 401, the first refresh exchange was answered 200 with
\* a pair, and the service never answered 401 to the issued access token.
ExpiredTokenRefreshed ==
    /\ lk.pc = "done"
    /\ Indices("get") # {} /\ Indices("post") # {}
    /\ lk.log[1].ev = "get" /\ lk.log[1].tok = lk.tok /\ lk.log[1].st = 401
    /\ LET p == lk.log[First(Indices("post"))]
       IN  /\ p.st = 200 /\ Truthy(p.tok)
           /\ \A i \in Indices("get") : lk.log[i].tok = p.tok => lk.log[i].st # 401

IssuedAccess == lk.log[First(Indices("post"))].tok

OneRefreshThenNewToken ==
    /\ Cardinality(Indices("refresh")) = 1
    /\ \A i \in Indices("get") :
           i > First(Indices("refresh")) => lk.log[i].tok = IssuedAccess

RecordHoldsIssuedPair ==
    tokenFile = FileRecord(IssuedAccess, IssuedAccess)

\* C1 as stated: after a 401 on the stored token and a successful exchange,
\* one refresh call, later requests carry the new token, and the persisted
\* record holds the new pair.
C1_AsStated ==
    ExpiredTokenRefreshed => OneRefreshThenNewToken /\ RecordHoldsIssuedPair

\* C1 amended: the same, the persisted record holding the new pair whenever
\* save_trakt_token_data could write the file.
C1_RefreshOnceAndPersist ==
    ExpiredTokenRefreshed =>
        /\ OneRefreshThenNewToken
        /\ (\E i \in Indices("save") : lk.log[i].st = 1) => RecordHoldsIssuedPair

C1_Witness ==
    /\ ExpiredTokenRefreshed
    /\ Cardinality(Indices("get")) = 3
    /\ RecordHoldsIssuedPair
    /\ lk.res = <<3, 5>>

\* make_request for url u has returned to get_trakt_next_episode (or raised).
Returned(u) == lk.pc = "done" \/ lk.url > u

\* C2: per make_request call (one per url) at most two GETs and one refresh; a
\* 401 answered to the retry is the last exchange of the lookup; whenever the
\* final answer of a call is not 200 the lookup returns (None, None) and asks
\* nothing more.
C2_SingleRetry ==
    \A u \in {1, 2} :
        LET gets == IndicesFor("get", u)
        IN  /\ Cardinality(gets) <= 2
            /\ Cardinality(IndicesFor("refresh", u)) <= 1
            /\ Cardinality(gets) = 2 /\ lk.log[Last(gets)].st = 401 =>
                  Last(gets) = Len(lk.log) /\ lk.pc = "done"
            /\ gets # {} /\ Returned(u) /\ lk.log[Last(gets)].st # 200 =>
                  lk.pc = "done" /\ lk.res = <<None, None>> /\ lk.url = u

C2_Witness ==
    /\ lk.pc = "done"
    /\ Cardinality(IndicesFor("get", 2)) = 2
    /\ lk.log[Len(lk.log)].ev = "get" /\ lk.log[Len(lk.log)].st = 401
    /\ Cardinality(IndicesFor("refresh", 2)) = 1
    /\ lk.res = <<None, None>>

\* ----------------------------------------- claims on the wake and dispatch

CountCmd(name) == Cardinality({i \in 1..Len(sent) : sent[i].cmd = name})
WakeCmds == {"WOL", "ADB_CONNECT", "WAKEUP", "AM_START"}
\* wake_and_start_kodi has returned to the worker.
WakeReturned == wk.pc \in {"after_wake", "end"}

\* C3 as stated: a wake invoked while the device is responsive returns success
\* and sends no wake command, whatever the device settings.
C3_AsStated ==
    WakeReturned /\ wk.upAtCall =>
        wk.ret /\ \A n \in WakeCmds : CountCmd(n) = 0

\* C3 amended: a wake invoked while the device is responsive sends no wake
\* command; it returns success when SHIELD_IP and SHIELD_MAC are both set and
\* failure when one of them is not.
C3_ResponsiveIsNoOp ==
    WakeReturned /\ wk.upAtCall =>
        /\ \A n \in WakeCmds : CountCmd(n) = 0
        /\ wk.ret = (cfg.shield_ip /\ cfg.shield_mac)

C3_Witness ==
    /\ WakeReturned /\ wk.upAtCall /\ wk.ret
    /\ wk.probes = 1 /\ wk.alive = 1

\* C4 as stated: when no probe of the call finds the device alive the wake
\* returns failure and every wake command was attempted at most once.
C4_AsStated ==
    WakeReturned /\ wk.alive = 0 =>
        ~wk.ret /\ \A n \in WakeCmds : CountCmd(n) <= 1

\* C4 amended: ... returns failure; the magic packet, the adb connect and the
\* app launch were attempted at most once each and the WAKEUP key event at
\* most twice (the two spaced key events of one wake sequence).
C4_UnreachableFailsOnce ==
    WakeReturned /\ wk.alive = 0 =>
        /\ ~wk.ret
        /\ \A n \in WakeCmds \ {"WAKEUP"} : CountCmd(n) <= 1
        /\ CountCmd("WAKEUP") <= 2

C4_Witness ==
    /\ WakeReturned /\ wk.alive = 0 /\ ~wk.ret
    /\ wk.i = PollBudget /\ wk.probes = PollBudget + 2
    /\ CountCmd("WAKEUP") = 2 /\ CountCmd("AM_START") = 1

Opens == {i \in 1..Len(sent) : sent[i].cmd = "Player.Open"}

\* C5: a worker sends Player.Open only once its wake returned success, at most
\* once and with its own locator; a worker whose wake failed ends without any
\* Player.Open (worker_process: without any player command), one whose wake
\* succeeded ends having sent exactly one.
C5_OpenOnlyWhenAwake ==
    wk.pc # "idle" =>
        /\ Cardinality(Opens) <= 1
        /\ \A i \in Opens :
              /\ wk.pc = "end" /\ wk.ret
              /\ i = Len(sent)
              /\ sent[i].url = wk.url
        /\ wk.pc = "end" /\ ~wk.ret =>
              /\ Opens = {}
              /\ wk.task = "worker_process" => CountCmd("Player.Stop") = 0
        /\ wk.pc = "end" /\ wk.ret => Cardinality(Opens) = 1

C5_Witness ==
    /\ wk.pc = "end" /\ wk.ret /\ wk.task = "worker_process"
    /\ CountCmd("WOL") = 1 /\ wk.probes > 2
    /\ Cardinality(Opens) = 1 /\ sent[Len(sent)].url = wk.url

\* ------------------------------------------------- claims on the dialogue

Replied == turn.state = "replied"
IsIntent(names) == turn.req.type = "IntentRequest" /\ turn.req.intent \in names
AffirmativeIntents == {"AMAZON.YesIntent", "ResumeIntent", "ReprendreIntent"}
Awaiting(a) == a.step = "ask_playback_method"
Value(v) == v # None /\ v # Missing
\* The context holds a pending target and a next-unwatched candidate, and the
\* name the handler stored with the target.
HasTargetAndNext(a) ==
    /\ Truthy(a.pending_show_id)
    /\ a.pending_show_name # Missing
    /\ Truthy(a.trakt_next_s) /\ Truthy(a.trakt_next_e)
Dispatched == turn.resp.threads

C7_LocatorFields ==
    Replied =>
        \A i \in 1..Len(Dispatched) :
            /\ Dispatched[i].url.type = "movie" =>
                   Dispatched[i].url.season = Missing /\ Dispatched[i].url.episode = Missing
            /\ Dispatched[i].url.type = "episode" =>
                   Value(Dispatched[i].url.season) /\ Value(Dispatched[i].url.episode)

\* C8: the request handled again, the catalogue, the progress service, the
\* authorization endpoint, the file system and the device answering as they did
\* the first time, gets the reply text and the outbound context of the first
\* time, whatever was handled in between.
C8_ReplaySameReply ==
    turn.state = "replayed" =>
        /\ turn.resp.code = probe.resp.code
        /\ turn.resp.text = probe.resp.text
        /\ turn.resp.attrs = probe.resp.attrs

\* C9: every request that has the 'request' key, whatever its type, intent,
\* slots and inbound context (keys absent or null included), is answered with
\* a speech text and an outbound context, never with an unhandled error.
C9_HandlerTotal ==
    (Replied /\ turn.req.has_request) =>
        /\ turn.resp.code = 200
        /\ turn.resp.text # NoText

Unrecognized ==
    \/ turn.req.type \notin {"LaunchRequest", "IntentRequest"}
    \/ turn.req.type = "IntentRequest" /\ turn.req.intent = "AMAZON.HelpIntent"

\* C10: an unrecognized intent or request type is answered 'not understood'
\* and the outbound context is the inbound context.
C10_UnrecognizedKeepsContext ==
    (Replied /\ turn.req.has_request /\ Unrecognized) =>
        /\ turn.resp.text.key = "not_understood"
        /\ turn.resp.attrs = turn.req.attrs

\* Every key the handler writes into a context is there (the value may be null).
KeysPresent(a) ==
    /\ a.pending_show_id # Missing /\ a.pending_show_name # Missing
    /\ a.step # "missing" /\ a.force_select # Missing
    /\ a.trakt_next_s # Missing /\ a.trakt_next_e # Missing
    /\ a.tmdb_last_s # Missing /\ a.tmdb_last_e # Missing

\* C11: an affirmative intent on a context that awaits the playback choice and
\* holds no next-unwatched candidate starts no dispatch, replies 'nothing to
\* resume' and keeps the step, the pending target and the last-aired candidate
\* in the outbound context.
C11_NoCandidateStaysInStep ==
    (Replied /\ IsIntent(AffirmativeIntents) /\ Awaiting(turn.req.attrs)
       /\ KeysPresent(turn.req.attrs) /\ ~Truthy(turn.req.attrs.trakt_next_s))
    => /\ Len(Dispatched) = 0
       /\ turn.resp.text.key = "no_history"
       /\ Awaiting(turn.resp.attrs)
       /\ turn.resp.attrs.pending_show_id = turn.req.attrs.pending_show_id
       /\ turn.resp.attrs.tmdb_last_s = turn.req.attrs.tmdb_last_s
       /\ turn.resp.attrs.tmdb_last_e = turn.req.attrs.tmdb_last_e

\* C12: a 'latest episode' intent dispatches the last-aired candidate of the
\* context when the context awaits the playback choice and holds one; when the
\* candidate is null or the context awaits nothing it starts no dispatch and
\* replies 'unavailable'.
C12_LatestOnlyWhenPresent ==
    (Replied /\ IsIntent({"LatestEpisodeIntent"})
       /\ (turn.req.attrs = EmptyCtx \/ KeysPresent(turn.req.attrs)))
    => IF /\ Awaiting(turn.req.attrs)
          /\ Value(turn.req.attrs.tmdb_last_s) /\ Value(turn.req.attrs.tmdb_last_e)
       THEN /\ Len(Dispatched) = 1
            /\ Dispatched[1].url.tmdb_id = turn.req.attrs.pending_show_id
            /\ Dispatched[1].url.type = "episode"
            /\ Dispatched[1].url.season = turn.req.attrs.tmdb_last_s
            /\ Dispatched[1].url.episode = turn.req.attrs.tmdb_last_e
       ELSE /\ Len(Dispatched) = 0
            /\ turn.resp.text.key = "unavailable"

\* C13: PlayTVShowIntent with a resolved show (found by name, or the pending
\* target of the context when no name is given).  With the Season and Episode
\* slots both present and the episode validated: exactly one dispatch, of that
\* episode, and an empty outbound context.  With one of them absent: no
\* dispatch, and an outbound context with the step, the show's id and name and
\* the two fetched candidates.  With neither a name nor a pending target: the
\* handler asks for a name, with an empty context.
C13_PlayTVShowBranches ==
    (Replied /\ IsIntent({"PlayTVShowIntent"})
       /\ (turn.req.attrs = EmptyCtx \/ KeysPresent(turn.req.attrs)))
    => LET a == turn.req.attrs
           sl == turn.req.slots
           viaPending == ~Truthy(sl.ShowName) /\ Truthy(Get(a.pending_show_id))
           id == IF viaPending THEN a.pending_show_id ELSE turn.env.show.id
           name == IF viaPending THEN a.pending_show_name ELSE turn.env.show.title
       IN  IF ~Truthy(sl.ShowName) /\ ~Truthy(Get(a.pending_show_id))
           THEN /\ Len(Dispatched) = 0
                /\ turn.resp.text.key = "ask_which_show"
                /\ turn.resp.attrs = EmptyCtx
           ELSE IF ~Truthy(id) THEN Len(Dispatched) = 0
           ELSE IF Truthy(sl.Season) /\ Truthy(sl.Episode)
           THEN /\ turn.resp.attrs = EmptyCtx
                /\ check_episode_exists(cfg, turn.env.exists) =>
                       /\ Len(Dispatched) = 1
                       /\ Dispatched[1].url.tmdb_id = id
                       /\ Dispatched[1].url.type = "episode"
                       /\ Dispatched[1].url.season = sl.Season
                       /\ Dispatched[1].url.episode = sl.Episode
           ELSE /\ Len(Dispatched) = 0
                /\ Awaiting(turn.resp.attrs)
                /\ turn.resp.attrs.pending_show_id = id
                /\ turn.resp.attrs.pending_show_name = name
                /\ turn.resp.attrs.trakt_next_s = turn.env.lk.res[1]
                /\ turn.resp.attrs.trakt_next_e = turn.env.lk.res[2]
                /\ turn.resp.attrs.tmdb_last_s = get_tmdb_last_aired(cfg, turn.env.last)[1]
                /\ turn.resp.attrs.tmdb_last_e = get_tmdb_last_aired(cfg, turn.env.last)[2]

\* ------------------------------------------- claims on the credential store

\* refresh_trakt_token_online returns None in this step.
RefreshFails ==
    /\ Len(lk'.log) > Len(lk.log)
    /\ lk'.log[Len(lk'.log)].ev = "refresh_ret"
    /\ lk'.log[Len(lk'.log)].tok = None

Loaded(l) == l.pc \in {"get", "rt_read", "rt_post", "rt_open", "rt_dump", "retry", "done"}

\* The lookup l saved a refreshed pair (save_trakt_token_data wrote the file).
SavedRefresh(l) == \E i \in 1..Len(l.log) : l.log[i].ev = "save" /\ l.log[i].st = 1

\* C15: with a complete record on disk and two lookups interleaving, one
\* saving a refreshed pair while the other loads, the loader gets the access
\* token of the old record or of a refreshed one (never the bootstrap value,
\* never none), and once both lookups are over and one saved a refreshed
\* pair, the record on disk is a refreshed pair.
C15_RecordWholeAndRefreshed ==
    /\ \A l \in {lk, lk2} : Loaded(l) => l.tok >= 2
    /\ (lk.pc = "done" /\ lk2.pc = "done" /\ (SavedRefresh(lk) \/ SavedRefresh(lk2)))
           => (tokenFile.kind = "json" /\ tokenFile.access >= 3 /\ tokenFile.refresh >= 3)

C17_ExistenceCheckFailsOpen ==
    (Replied /\ IsIntent({"PlayTVShowIntent"})
       /\ Truthy(turn.req.slots.ShowName)
       /\ Truthy(turn.req.slots.Season) /\ Truthy(turn.req.slots.Episode)
       /\ Truthy(search_tmdb_show(cfg, turn.env.show).id)
       /\ turn.env.exists = Raised)
    => /\ check_episode_exists(cfg, turn.env.exists)
       /\ turn.resp.code = 200
       /\ turn.resp.text.key = "launch_show"
       /\ Len(Dispatched) = 1
       /\ Dispatched[1].target = "worker_process"
       /\ Dispatched[1].url.type = "episode"
       /\ Dispatched[1].url.tmdb_id = search_tmdb_show(cfg, turn.env.show).id
       /\ Dispatched[1].url.season = turn.req.slots.Season
       /\ Dispatched[1].url.episode = turn.req.slots.Episode

C17_Witness ==
    /\ Replied /\ IsIntent({"PlayTVShowIntent"})
    /\ Truthy(turn.req.slots.ShowName)
    /\ Truthy(turn.req.slots.Season) /\ Truthy(turn.req.slots.Episode)
    /\ "exists" \in turn.resp.asked
    /\ turn.env.exists = Raised
    /\ Len(Dispatched) = 1

Stops == {i \in 1..Len(sent) : sent[i].cmd = "Player.Stop"}
ChangingSource == wk.task = "change_source_worker"

\* C18: a change_source_worker sends Player.Stop for its player first, before
\* any probe or command of the wake; the wake starts only after the settle
\* wait; no second stop and at most one Player.Open follow, the Player.Open
\* carrying the worker's locator; a worker whose wake failed sends none.
C18_StopSettleThenOpen ==
    ChangingSource =>
        /\ wk.pc = "stop" => (sent = <<>> /\ ~wk.settled)
        /\ wk.pc = "settle" =>
              (sent = <<Cmd("Player.Stop", NoUrl, wk.player)>> /\ ~wk.settled)
        /\ wk.pc \in {"stop", "settle"} => (wk.probes = 0 /\ wk.alive = 0)
        /\ wk.pc \notin {"stop", "settle"} =>
              /\ wk.settled
              /\ Stops = {1}
              /\ sent[1] = Cmd("Player.Stop", NoUrl, wk.player)
              /\ Cardinality(Opens) <= 1
              /\ \A i \in Opens : i > 1 /\ sent[i].url = wk.url /\ WakeReturned /\ wk.ret
        /\ (WakeReturned /\ ~wk.ret) => Opens = {}

\* The source change went through: stop, settle wait, wake, one Player.Open.
C18_Witness ==
    /\ ChangingSource /\ wk.pc = "end" /\ wk.settled /\ wk.ret
    /\ sent[1].cmd = "Player.Stop"
    /\ sent[Len(sent)].cmd = "Player.Open"
    /\ Len(sent) > 2

\* Inbound contexts to compare: empty, complete with either player choice,
\* and with keys absent.
OtherContexts ==
    {EmptyCtx, Ctx(10, 11, "ask_playback_method", 0, 3, 5, 4, 6),
     Ctx(20, 21, "ask_playback_method", 1, None, None, None, None)}
    \cup ForeignContexts

\* What of a reply the caller and the device get to see.
Outcome(resp) ==
    [code |-> resp.code, text |-> resp.text, end |-> resp.end, attrs |-> resp.attrs,
     threads |-> resp.threads]

\* C19: a ChangeSourceIntent handled with the same device and catalogue
\* answers has the same reply, the same started workflow and the same locator
\* under every inbound context, and a dispatched locator names the
\* manual-source player.
C19_ChangeSourceIgnoresContext ==
    (Replied /\ IsIntent({"ChangeSourceIntent"})) =>
        /\ \A a \in OtherContexts :
              Outcome(alexa_handler([turn.req EXCEPT !.attrs = a], turn.env, cfg))
                  = Outcome(turn.resp)
        /\ \A i \in 1..Len(Dispatched) :
              /\ Dispatched[i].target = "change_source_worker"
              /\ Dispatched[i].url.player = "PLAYER_SELECT"

\* A source change started inside a conversation that awaits a playback choice.
C19_Witness ==
    /\ Replied /\ IsIntent({"ChangeSourceIntent"})
    /\ turn.req.attrs.step = "ask_playback_method"
    /\ turn.req.attrs.force_select = 0
    /\ Len(Dispatched) = 1

\* C20: a request that dispatches playback can return its reply at once,
\* whatever the worker is doing; the reply that leaves the handler is the one
\* fixed by the request and the answers the handler got, with the text of the
\* dispatching branch and not the 'device offline' apology, whether the
\* worker's wake has succeeded, failed or not finished; no step of the worker
\* or of the device changes a reply or the context the platform holds.
C20_ReplyDoesNotWaitForWorker ==
    /\ [](turn.state = "handling" => ENABLED Reply)
    /\ []((Replied /\ Playback(turn.resp) # <<>>)
            => /\ Outcome(turn.resp) = Outcome(alexa_handler(turn.req, turn.env, cfg))
               /\ turn.resp.code = 200
               /\ turn.resp.text.key \in
                     {"resume_show", "launch_movie", "launch_show", "launch_last",
                      "change_source_movie", "change_source_episode"})
    /\ [][((wk.pc # "idle" /\ wk' # wk) \/ kodi' # kodi)
            => (turn' = turn /\ session' = session)]_vars

\* The reply of a dispatching request left the handler after its worker had
\* given up on an unreachable device.
C20_Witness ==
    /\ Replied /\ Playback(turn.resp) # <<>>
    /\ wk.pc = "end" /\ ~wk.ret /\ wk.task = "worker_process"
    /\ CountCmd("WOL") = 1

\* ------------------------------------- claims on bodies and concurrency

\* The body of the request handled last is not an object holding 'request'.
LacksRequest == turn.req.body # "object" \/ ~turn.req.has_request

\* C21: a body that is empty or has no 'request' key is answered 400 with the
\* fixed error payload, and its handling starts no thread and calls neither
\* the catalogue, the progress service, the credential store nor the device.
C21_MalformedBodyRejected ==
    (Replied /\ LacksRequest) =>
        /\ turn.resp = InvalidRequest
        /\ turn.resp.code = 400
        /\ turn.resp.threads = <<>>
        /\ turn.resp.asked = {}

RefreshSection == {"rt_read", "rt_post", "rt_open", "rt_dump"}

\* The refresh tokens the lookup l read from storage and went on to submit.
Submitted(l) ==
    {l.log[i].tok : i \in {j \in 1..Len(l.log) :
                              /\ l.log[j].ev = "refresh"
                              /\ j < Len(l.log) /\ l.log[j + 1].ev = "post"}}
\* The lookup l was issued a pair by the authorization endpoint.
Exchanged(l) == \E i \in 1..Len(l.log) : l.log[i].ev = "post" /\ l.log[i].st = 200

\* With a rotating service every pair but the one issued last is invalidated.
Invalidated(file) ==
    file.kind = "json" /\ minted > 0 /\ file.access # NewAccess(minted - 1)

\* C22: a request that got a 401 starts its refresh whatever the other
\* request is doing (no single-flight guard), and it submits the refresh
\* token that is in storage when it reads it, be it the one the other
\* request is exchanging at that moment.
C22_RefreshesNotSerialized ==
    /\ [](lk.pc = "rt_read" => ENABLED RefreshRead)
    /\ [](lk2.pc = "rt_read" => ENABLED Step2)
    /\ [][(lk2.pc = "rt_read" /\ lk2'.pc = "rt_post")
             => lk2'.log[Len(lk2'.log)].tok
                    = get_refresh_token_from_storage(tokenFile, cfg)]_vars
    /\ [][(lk.pc = "rt_read" /\ lk'.pc = "rt_post")
             => lk'.log[Len(lk'.log)].tok
                    = get_refresh_token_from_storage(tokenFile, cfg)]_vars

\* Both requests submitted the stored refresh token 2, both were issued a
\* pair and saved it, and the record left on disk is the pair issued first,
\* which the second exchange invalidated.
C22_Witness ==
    /\ lk.pc = "done" /\ lk2.pc = "done"
    /\ 2 \in Submitted(lk) /\ 2 \in Submitted(lk2)
    /\ Exchanged(lk) /\ Exchanged(lk2)
    /\ SavedRefresh(lk) /\ SavedRefresh(lk2)
    /\ tokenFile = FileRecord(NewAccess(0), NewRefresh(0))
    /\ Invalidated(tokenFile)

\* Where in arrived the Player.Open of locator u and the Player.Stop are.
ArrivedOpens(u) ==
    {i \in 1..Len(arrived) : arrived[i].cmd = "Player.Open" /\ arrived[i].url = u}
ArrivedStops == {i \in 1..Len(arrived) : arrived[i].cmd = "Player.Stop"}
Running(w) == w.pc \notin {"idle", "end"}

\* The item the device is left playing: the one opened last, none after a stop.
LeftPlaying ==
    IF arrived # <<>> /\ arrived[Len(arrived)].cmd = "Player.Open"
    THEN arrived[Len(arrived)].url
    ELSE NoUrl

\* C23: a running worker can always take its next step, whatever the other
\* worker is doing; each worker's own commands reach the device in its own
\* order (its stop before its open, at most one open, of its own locator),
\* nothing orders the commands of one worker against the other's, and the
\* item left playing is that of the Player.Open that arrived last.
C23_WorkersNotExcluded ==
    /\ [](Running(wk2) => ENABLED Work2)
    /\ [](wk.pc = "after_wake" => ENABLED PlayerOpen)
    /\ [](wk.pc = "stop" => ENABLED StopPlayback)
    /\ [](/\ \A i \in 1..Len(arrived) :
              arrived[i].cmd = "Player.Open" => arrived[i].url \in {wk.url, wk2.url}
          /\ Cardinality(ArrivedOpens(wk.url)) <= 1
          /\ Running(wk2) \/ wk2.pc = "end" => Cardinality(ArrivedOpens(wk2.url)) <= 1
          /\ Cardinality(ArrivedStops)
                <= Cardinality({w \in {wk, wk2} : w.task = "change_source_worker"})
          /\ (wk.task = "change_source_worker" /\ wk2.task = "worker_process")
                => \A i \in ArrivedStops : \A j \in ArrivedOpens(wk.url) : i < j
          /\ (wk2.task = "change_source_worker" /\ wk.task = "worker_process")
                => \A i \in ArrivedStops : \A j \in ArrivedOpens(wk2.url) : i < j
          /\ LeftPlaying \in {NoUrl, wk.url, wk2.url}
          /\ \A u \in {wk.url, wk2.url} :
                (LeftPlaying = u /\ u # NoUrl)
                    => \A i \in 1..Len(arrived) :
                          arrived[i].cmd = "Player.Open" => i <= Last(ArrivedOpens(u)))

\* The Player.Open of the request received second reached the device first;
\* the item of the first request is left playing.
C23_Witness ==
    /\ wk.pc = "end" /\ wk2.pc = "end"
    /\ wk2.task = "change_source_worker"
    /\ Len(arrived) = 3
    /\ arrived[1].cmd = "Player.Stop"
    /\ arrived[2] = Cmd("Player.Open", wk2.url, None)
    /\ arrived[3] = Cmd("Player.Open", wk.url, None)
    /\ LeftPlaying = wk.url

\* ------------------------------------------------------ claims on termination

InWake == wk.pc \in {"wol", "adb_connect", "key1", "key2", "probe2", "am_start", "poll"}

\* C24: a started wake_and_start_kodi returns; the polling loop probes at
\* most 45 times after the two earlier probes, the call returns success at
\* the first probe that finds the device alive and only then; a started
\* worker ends, having sent its Player.Open exactly when the wake succeeded.
C24_WakeTerminates ==
    /\ [](wk.pc # "idle" =>
            /\ wk.i <= PollBudget
            /\ wk.probes <= wk.i + 3
            /\ wk.probes <= PollBudget + 2
            /\ wk.pc = "poll" => wk.i < PollBudget
            /\ InWake => wk.alive = 0
            /\ wk.alive <= 1
            /\ WakeReturned => (wk.ret <=> wk.alive = 1))
    /\ (wk.pc = "wake") ~> WakeReturned
    /\ (wk.pc # "idle") ~> (wk.pc = "end" /\ (wk.ret <=> Cardinality(Opens) = 1))

\* The device answered at the last probe of the polling loop and the worker
\* ended with its Player.Open.
C24_Witness ==
    /\ wk.pc = "end" /\ wk.ret
    /\ wk.i = PollBudget - 1 /\ wk.probes = PollBudget + 2 /\ wk.alive = 1
    /\ Cardinality(Opens) = 1

\* ------------------------------------------------ claims on the source change

\* The request in hand is a ChangeSourceIntent that reached its branch.
SourceChangeAsked ==
    /\ turn.state # "idle"
    /\ turn.req.body = "object" /\ turn.req.has_request
    /\ turn.req.type = "IntentRequest" /\ turn.req.intent = "ChangeSourceIntent"
\* What each prerequisite step got from the device and the catalogue.
ProbedAlive == KODI_BASE_URL(cfg) /\ turn.env.probe \in {200, 401, 405}
PlayerFound == turn.env.players \notin {Missing, None}
ItemRead == turn.env.item.kind = "item"
Resolved ==
    \/ turn.env.item.type = "movie" /\ cfg.tmdb_key
          /\ turn.env.movie.kind = "item" /\ Truthy(turn.env.movie.id)
    \/ turn.env.item.type = "episode" /\ cfg.tmdb_key
          /\ turn.env.show.kind = "item" /\ Truthy(turn.env.show.id)
Apology ==
    IF ~ProbedAlive THEN "kodi_offline"
    ELSE IF ~(PlayerFound /\ ItemRead) THEN "nothing_playing"
    ELSE "content_error"

\* C25: the worker of a ChangeSourceIntent is started, and a Player.Stop or
\* Player.Open sent, only when the probe found the device alive, a video
\* player was found, its item was read and the catalogue resolved it; when
\* one of the four yields nothing no worker runs for the request, nothing is
\* sent to the device and the reply is the apology of the step that failed.
C25_SourceChangePrerequisites ==
    SourceChangeAsked =>
        /\ turn.resp.code = 200
        /\ (turn.resp.threads # <<>> \/ wk.pc # "idle" \/ sent # <<>> \/ arrived # <<>>)
              => /\ ProbedAlive /\ PlayerFound /\ ItemRead /\ Resolved
                 /\ Len(turn.resp.threads) = 1
                 /\ turn.resp.threads[1].target = "change_source_worker"
                 /\ turn.resp.threads[1].player = turn.env.players
                 /\ wk.pc # "idle" => /\ wk.task = "change_source_worker"
                                      /\ wk.url = turn.resp.threads[1].url
        /\ ~(ProbedAlive /\ PlayerFound /\ ItemRead /\ Resolved)
              => /\ turn.resp.threads = <<>>
                 /\ wk.pc = "idle" /\ sent = <<>> /\ arrived = <<>>
                 /\ turn.resp.text.key = Apology
                 /\ turn.resp.end

\* The device was alive, a player and its item were found, the catalogue did
\* not resolve the item: the reply is the content error and no worker runs.
C25_Witness ==
    /\ SourceChangeAsked /\ Replied
    /\ ProbedAlive /\ PlayerFound /\ ItemRead /\ ~Resolved
    /\ turn.env.item.type = "movie"
    /\ turn.resp.text.key = "content_error"
    /\ wk.pc = "idle" /\ sent = <<>>
====
